---- MODULE Spec2Model ----
(***************************************************************************)
(* Model of sentient-lora's development proxy (vite.config.js, kept as     *)
(* src/unnamed/part_001), of the App shell (src/src/App.jsx) and of the    *)
(* chat panel (src/src/components/ChatInterface.jsx).                      *)
(*                                                                         *)
(* Strings are TLA+ strings; startsWith, concatenation and slicing are     *)
(* computed on them character by character (Len, SubSeq, \o).              *)
(***************************************************************************)
EXTENDS Integers, Sequences, FiniteSets, Bags, TLC

VARIABLES
    \* ---- dev server (part_001) ----
    env,            \* process.env.VITE_API_URL, or NoEnv
    proxyTarget,    \* module variable proxyTarget             (part_001:6)
    optionsTarget,  \* proxy.options.target of the '/api' proxy (part_001:59,74)
    currentTarget,  \* module variable currentTarget     (ChatInterface.jsx:176)
    ctrlLast,       \* last exchange of the control endpoint, or NoExchange
    ctrlSeen,       \* has any request reached the control endpoint
    acked,          \* raw target of the last 200 {success:true}, or NoAck
    fwd,            \* last forwarded request since the last 200, or NoFwd
    \* ---- browser: App (App.jsx) ----
    localStorage,   \* localStorage['apiUrl'], or NoKey
    apiUrl,         \* useState apiUrl                            (App.jsx:6)
    isConfiguring,  \* useState isConfiguring                     (App.jsx:7)
    appError,       \* useState error                             (App.jsx:8)
    submits,        \* the running handleApiSubmit calls: a bag of [pc, url]
    probed,         \* history: the targets whose probe was answered with a model array
    \* ---- browser: ChatInterface (ChatInterface.jsx), the mounted panel ----
    messages,       \* useState messages                (ChatInterface.jsx:4)
    input,          \* useState input                   (ChatInterface.jsx:5)
    loading,        \* useState loading                 (ChatInterface.jsx:6)
    models,         \* useState models                  (ChatInterface.jsx:7)
    selectedModel,  \* useState selectedModel           (ChatInterface.jsx:8)
    chatError,      \* useState error                   (ChatInterface.jsx:9)
    listReq,        \* the mounted panel's fetchModels request is in flight
    chatReq,        \* the mounted panel's chat request in flight, or NoReq
    orphanList,     \* a listing request of an unmounted panel is in flight
    orphanChat      \* a chat request of an unmounted panel is in flight

serverVars == <<env, proxyTarget, optionsTarget, currentTarget,
                ctrlLast, ctrlSeen, acked, fwd>>

appVars == <<localStorage, apiUrl, isConfiguring, appError, submits, probed>>

chatVars == <<messages, input, loading, models, selectedModel, chatError,
              listReq, chatReq, orphanList, orphanChat>>

vars == <<serverVars, appVars, chatVars>>

-----------------------------------------------------------------------------
(* Values that stand for "nothing" *)
NoEnv  == "<unset>"
NoAck  == "<none>"
NoExchange == [method |-> "", reqBody |-> "", status |-> 0, resBody |-> ""]
NoFwd  == [url |-> "", dest |-> ""]
NoKey  == "<null>"
NoError == "<null>"
Undefined == "<undefined>"
NoReq  == [model |-> "", messages |-> <<>>, temperature |-> "", max_tokens |-> 0]

-----------------------------------------------------------------------------
(* String helpers, as String.prototype.startsWith / endsWith / includes *)
StartsWith(s, p) == Len(s) >= Len(p) /\ SubSeq(s, 1, Len(p)) = p

EndsWith(s, p) == Len(s) >= Len(p) /\ SubSeq(s, Len(s) - Len(p) + 1, Len(s)) = p

Includes(s, p) ==
    \E i \in 1..(Len(s) - Len(p) + 1) : SubSeq(s, i, i + Len(p) - 1) = p

-----------------------------------------------------------------------------
(* part_001:5  const defaultTarget = 'http://provider.gpufarm.xyz:31617' *)
defaultTarget == "http://provider.gpufarm.xyz:31617"

(* ChatInterface.jsx:176  process.env.VITE_API_URL || 'http://provider...' *)
(* currentTarget is assigned here and by updateTarget (178-180), which     *)
(* nothing calls; getTarget (182-184), its only reader, is not called      *)
(* either: the '/api' proxy of part_001 never consults it.                 *)
InitialCurrentTarget(e) ==
    IF e # NoEnv /\ e # "" THEN e ELSE "http://provider.gpufarm.xyz:31617"

(* A variant of updateProxyTarget that tests for "http://" only *)
UpdateProxyTargetHttpOnly(newTarget) ==
    IF ~StartsWith(newTarget, "http://")
    THEN "http://" \o newTarget
    ELSE newTarget

(* part_001:11-14  the value updateProxyTarget(newTarget) stores *)
updateProxyTarget(newTarget) ==
    IF ~StartsWith(newTarget, "http://") /\ ~StartsWith(newTarget, "https://")
    THEN "http://" \o newTarget
    ELSE newTarget

(* part_001:70-73  the target the proxyReq handler writes to proxy.options *)
ProxyReqTarget(t) ==
    IF ~StartsWith(t, "http://") /\ ~StartsWith(t, "https://")
    THEN "http://" \o t
    ELSE t

(* part_001:61  rewrite: path.replace(/^\/api/, '') *)
rewrite(path) ==
    IF StartsWith(path, "/api") THEN SubSeq(path, 5, Len(path)) ELSE path

-----------------------------------------------------------------------------
(* JSON.parse of a request body (part_001:32).  The bodies understood are  *)
(* the literals listed here and every body of the shape                    *)
(* {"target":"<text without quote or backslash>"}, which is what           *)
(* JSON.stringify({ target: formattedUrl }) of App.jsx:37 produces.        *)
(* Anything else is a SyntaxError.  A parsed value is                      *)
(*   [t |-> "null" | "number" | "string" | "array" | "object",             *)
(*    target |-> the type of its own property `target`, tv |-> its text]   *)
TargetPrefix == "{\"target\":\""
TargetSuffix == "\"}"

JsonSyntaxError == [ok |-> FALSE, t |-> "SyntaxError", target |-> "undefined", tv |-> ""]

JsonValue(t, target, tv) == [ok |-> TRUE, t |-> t, target |-> target, tv |-> tv]

JSONParse(body) ==
    IF /\ StartsWith(body, TargetPrefix)
       /\ EndsWith(body, TargetSuffix)
       /\ Len(body) >= Len(TargetPrefix) + Len(TargetSuffix)
       /\ ~Includes(SubSeq(body, Len(TargetPrefix) + 1, Len(body) - Len(TargetSuffix)), "\"")
    THEN JsonValue("object", "string",
                   SubSeq(body, Len(TargetPrefix) + 1, Len(body) - Len(TargetSuffix)))
    ELSE CASE body = "null"              -> JsonValue("null", "undefined", "")
           [] body = "5"                 -> JsonValue("number", "undefined", "")
           [] body = "\"a.example\""     -> JsonValue("string", "undefined", "")
           [] body = "[]"                -> JsonValue("array", "undefined", "")
           [] body = "{}"                -> JsonValue("object", "undefined", "")
           [] body = "{\"url\":\"a.example\"}" -> JsonValue("object", "undefined", "")
           [] body = "{\"target\":5}"    -> JsonValue("object", "number", "")
           [] body = "{\"target\":null}" -> JsonValue("object", "null", "")
           [] body = "{\"target\":[\"a.example\"]}" -> JsonValue("object", "array", "")
           [] OTHER                      -> JsonSyntaxError

(* JSON.stringify({ target: url })  (App.jsx:37), url without quote/backslash *)
StringifyTarget(url) == TargetPrefix \o url \o TargetSuffix

-----------------------------------------------------------------------------
(* A variant of ProxyUpdateOutcome without the try/catch: whatever the     *)
(* body, a target is stored and 200 is answered.                           *)
ProxyUpdateAcceptsAll(body) ==
    LET p == JSONParse(body) IN
    [ok |-> TRUE, error |-> "", raw |-> p.tv, stored |-> updateProxyTarget(p.tv)]

(* part_001:30-39  the 'end' handler of a POST to /@vite/proxy-update:     *)
(* the outcome of  const { target } = JSON.parse(body);                    *)
(*                 updateProxyTarget(target);                              *)
(* "ok" with the stored value, or the error thrown on the way.             *)
ProxyUpdateOutcome(body) ==
    LET p == JSONParse(body) IN
    IF ~p.ok
    THEN [ok |-> FALSE, error |-> "SyntaxError", raw |-> "", stored |-> ""]
    ELSE IF p.t = "null"
    THEN \* destructuring null throws
         [ok |-> FALSE, error |-> "TypeError", raw |-> "", stored |-> ""]
    ELSE IF p.target # "string"
    THEN \* newTarget.startsWith is not a function / of undefined
         [ok |-> FALSE, error |-> "TypeError", raw |-> "", stored |-> ""]
    ELSE [ok |-> TRUE, error |-> "", raw |-> p.tv, stored |-> updateProxyTarget(p.tv)]

(* The state change of the control endpoint for one POST body *)
ServePost(body) ==
    LET o == ProxyUpdateOutcome(body) IN
    /\ ctrlSeen' = TRUE
    /\ IF o.ok
       THEN /\ proxyTarget' = o.stored
            /\ ctrlLast' = [method |-> "POST", reqBody |-> body,
                             status |-> 200, resBody |-> "{\"success\":true}"]
            /\ acked' = o.raw
            /\ fwd' = NoFwd
       ELSE /\ proxyTarget' = proxyTarget
            /\ ctrlLast' = [method |-> "POST", reqBody |-> body,
                             status |-> 400,
                             resBody |-> "{\"error\":\"" \o o.error \o "\"}"]
            /\ UNCHANGED <<acked, fwd>>
    /\ UNCHANGED <<env, optionsTarget, currentTarget>>

(* part_001:24-45  POST /@vite/proxy-update from any client *)
ControlPost(body) ==
    /\ ServePost(body)
    /\ UNCHANGED <<appVars, chatVars>>

(* part_001:41-44  any other method: 405, nothing stored *)
ControlOther(method) ==
    /\ method # "POST"
    /\ ctrlSeen' = TRUE
    /\ ctrlLast' = [method |-> method, reqBody |-> "", status |-> 405, resBody |-> ""]
    /\ UNCHANGED <<env, proxyTarget, optionsTarget, currentTarget, acked, fwd>>
    /\ UNCHANGED <<appVars, chatVars>>

(* part_001:57-86  one request under /api.  The path is rewritten (61);    *)
(* the proxy takes the target from proxy.options as it stands when the     *)
(* request comes in and builds the outgoing request to it; 'proxyReq' is   *)
(* emitted for that built request, which the handler receives as its first *)
(* argument (66, 80).  The handler's assignment to proxy.options.target    *)
(* (74) is therefore read by the requests that follow, not by this one.    *)
(* Targets are taken without a path of their own, so the destination is    *)
(* the target followed by the rewritten path.                              *)
OptionsAfterProxyReq(pt, ot) ==
    IF pt # "" THEN ProxyReqTarget(pt) ELSE ot

ServeApi(url) ==
    /\ StartsWith(url, "/api")
    /\ fwd' = [url |-> url, dest |-> optionsTarget \o rewrite(url)]
    /\ optionsTarget' = OptionsAfterProxyReq(proxyTarget, optionsTarget)
    /\ UNCHANGED <<env, proxyTarget, currentTarget, ctrlLast, ctrlSeen, acked>>

Forward(url) ==
    /\ ServeApi(url)
    /\ UNCHANGED <<appVars, chatVars>>

-----------------------------------------------------------------------------
(* Bounds of the model *)
MaxSubmits == 2     \* handleApiSubmit calls running at once

MaxMessages == 6    \* entries of the transcript

-----------------------------------------------------------------------------
(* Restart of the dev server process: vite.config.js is evaluated again    *)
(* (part_001:5-6, 59); the browser is not touched.                         *)
Restart ==
    /\ proxyTarget' = defaultTarget
    /\ optionsTarget' = defaultTarget
    /\ ctrlLast' = NoExchange
    /\ ctrlSeen' = FALSE
    /\ acked' = NoAck
    /\ fwd' = NoFwd
    /\ UNCHANGED <<env, currentTarget, appVars, chatVars>>

-----------------------------------------------------------------------------
(* Upstream answers.  An answer to GET <target>/models is one of           *)
(*   "ab"       200 {"available_models":["a","b"]}                         *)
(*   "b"        200 {"available_models":["b"]}                             *)
(*   "empty"    200 {"available_models":[]}                                *)
(*   "missing"  200 {}                                                     *)
(*   "notarray" 200 {"available_models":"a"}                               *)
(*   "null"     200 null                                                   *)
(*   "notjson"  200 with a body that is not JSON                           *)
(*   "http500"  500                                                        *)
(*   "neterr"   no response: fetch rejects                                 *)
FetchRejects(o) == o = "neterr"

ResponseOk(o) == o \notin {"http500", "neterr"}

BodyIsJson(o) == o \notin {"notjson", "http500", "neterr"}

HasModelArray(o) == o \in {"ab", "b", "empty"}

AvailableModels(o) ==
    CASE o = "ab" -> <<"a", "b">>
      [] o = "b"  -> <<"b">>
      [] OTHER    -> <<>>

-----------------------------------------------------------------------------
(* The chat panel: mount and unmount of <ChatInterface/> (App.jsx:89-105)  *)

(* ChatInterface.jsx:4-9 and 21-73: the state a mounting panel starts      *)
(* with, and its effect fetchModels sending GET /api/models through the    *)
(* proxy.  The panel that was there before, if any, is gone: what it had   *)
(* in flight is answered to nobody.                                        *)
MountPanel ==
    /\ messages' = <<>>
    /\ input' = ""
    /\ loading' = FALSE
    /\ models' = <<>>
    /\ selectedModel' = ""
    /\ chatError' = NoError
    /\ listReq' = TRUE
    /\ chatReq' = NoReq
    /\ ServeApi("/api/models")

(* App.jsx:89-102: the form is rendered in place of the panel; the panel's *)
(* state is discarded.                                                     *)
NoPanel ==
    /\ messages' = <<>>
    /\ input' = ""
    /\ loading' = FALSE
    /\ models' = <<>>
    /\ selectedModel' = ""
    /\ chatError' = NoError
    /\ listReq' = FALSE
    /\ chatReq' = NoReq

Orphaned ==
    /\ orphanList' = (orphanList \/ listReq)
    /\ orphanChat' = (orphanChat \/ chatReq # NoReq)

-----------------------------------------------------------------------------
(* App.jsx *)

Min(S) == CHOOSE x \in S : \A y \in S : x <= y

Max(S) == CHOOSE x \in S : \A y \in S : x >= y

Positions(s, c) == {i \in 1..Len(s) : SubSeq(s, i, i) = c}

(* App.jsx:15  apiUrl.replace(/\/$/, '') *)
StripTrailingSlash(s) ==
    IF EndsWith(s, "/") THEN SubSeq(s, 1, Len(s) - 1) ELSE s

(* App.jsx:15-20  formattedUrl *)
FormattedUrl(u) ==
    LET f == StripTrailingSlash(u) IN
    IF ~StartsWith(f, "http://") /\ ~StartsWith(f, "https://")
    THEN "http://" \o f
    ELSE f

(* App.jsx:23-27  new URL(formattedUrl) does not throw.  formattedUrl      *)
(* starts with http:// or https://; of the URL parser's checks this keeps  *)
(* the ones on the authority: a host, no space, a port of digits.          *)
Digits == {"0", "1", "2", "3", "4", "5", "6", "7", "8", "9"}

ValidURL(f) ==
    LET rest == IF StartsWith(f, "https://") THEN SubSeq(f, 9, Len(f))
                ELSE SubSeq(f, 8, Len(f))
        sl   == Positions(rest, "/")
        auth == IF sl = {} THEN rest ELSE SubSeq(rest, 1, Min(sl) - 1)
        co   == Positions(auth, ":")
        host == IF co = {} THEN auth ELSE SubSeq(auth, 1, Max(co) - 1)
        port == IF co = {} THEN "" ELSE SubSeq(auth, Max(co) + 1, Len(auth))
    IN  /\ host # ""
        /\ Positions(auth, " ") = {}
        /\ \A i \in 1..Len(port) : SubSeq(port, i, i) \in Digits

(* App.jsx:92-98  <input type="url" required>: the browser submits the     *)
(* form only with a non-empty value that has a scheme.                     *)
FormAccepts(u) == u # "" /\ Positions(u, ":") # {}

(* App.jsx:95  onChange *)
TypeUrl(u) ==
    /\ isConfiguring
    /\ apiUrl' = u
    /\ UNCHANGED <<localStorage, isConfiguring, appError, submits, probed>>
    /\ UNCHANGED <<serverVars, chatVars>>

(* App.jsx:10-38  handleApiSubmit up to its first await: the URL is        *)
(* formatted and validated and the update is posted to the control path.   *)
HandleApiSubmit ==
    /\ isConfiguring
    /\ FormAccepts(apiUrl)
    /\ BagCardinality(submits) < MaxSubmits
    /\ LET formattedUrl == FormattedUrl(apiUrl) IN
       IF ~ValidURL(formattedUrl)
       THEN /\ appError' = "Unable to connect to API: Please enter a valid URL"
            /\ UNCHANGED <<submits, serverVars>>
       ELSE /\ appError' = ""
            /\ submits' = submits (+) SetToBag({[pc |-> "update", url |-> formattedUrl]})
            /\ ServePost(StringifyTarget(formattedUrl))
    /\ UNCHANGED <<localStorage, apiUrl, isConfiguring, probed, chatVars>>

(* App.jsx:38-47  the update has been answered (its status is not looked   *)
(* at); the probe GET /api/models is sent through the proxy.               *)
SubmitProbe(r) ==
    /\ BagIn(r, submits)
    /\ r.pc = "update"
    /\ submits' = (submits (-) SetToBag({r}))
                      (+) SetToBag({[pc |-> "probe", url |-> r.url]})
    /\ ServeApi("/api/models")
    /\ UNCHANGED <<localStorage, apiUrl, isConfiguring, appError, probed, chatVars>>

(* A variant of ProbeError without the checks on the body (61-66) *)
ProbeErrorIgnoresShape(o) ==
    IF FetchRejects(o) THEN "Failed to fetch"
    ELSE IF ~ResponseOk(o) THEN "Could not connect to API"
    ELSE ""

(* App.jsx:51-66  the error handleApiSubmit throws on a probe answer, or "" *)
ProbeError(o) ==
    IF FetchRejects(o) THEN "Failed to fetch"
    ELSE IF ~ResponseOk(o) THEN "Could not connect to API"
    ELSE IF ~BodyIsJson(o) THEN "Unexpected token"
    ELSE IF o = "null" THEN "Cannot read properties of null"
    ELSE IF ~HasModelArray(o) THEN "Invalid API response format"
    ELSE ""

(* App.jsx:49-74  the probe is answered *)
SubmitProbeDone(r, o) ==
    /\ BagIn(r, submits)
    /\ r.pc = "probe"
    /\ submits' = submits (-) SetToBag({r})
    /\ probed' = IF ResponseOk(o) /\ HasModelArray(o)
                 THEN probed \cup {r.url} ELSE probed
    /\ IF ProbeError(o) = ""
       THEN /\ localStorage' = r.url
            /\ apiUrl' = r.url
            /\ isConfiguring' = FALSE
            /\ UNCHANGED appError
            /\ IF isConfiguring
               THEN MountPanel /\ UNCHANGED <<orphanList, orphanChat>>
               ELSE UNCHANGED <<serverVars, chatVars>>
       ELSE /\ appError' = "Unable to connect to API: " \o ProbeError(o)
            /\ UNCHANGED <<localStorage, apiUrl, isConfiguring>>
            /\ UNCHANGED <<serverVars, chatVars>>

(* App.jsx:83  the "Configure API" button *)
ClickConfigure ==
    /\ isConfiguring' = TRUE
    /\ NoPanel
    /\ Orphaned
    /\ UNCHANGED <<localStorage, apiUrl, appError, submits, probed, serverVars>>

(* App.jsx:6-8  a page load: App's state from localStorage; with a saved   *)
(* key the panel mounts at once.  What the page before had in flight is    *)
(* aborted.                                                                *)
PageLoad ==
    /\ apiUrl' = (IF localStorage # NoKey THEN localStorage ELSE "")
    /\ isConfiguring' = (localStorage = NoKey)
    /\ appError' = ""
    /\ submits' = EmptyBag
    /\ orphanList' = FALSE
    /\ orphanChat' = FALSE
    /\ IF localStorage # NoKey
       THEN MountPanel
       ELSE NoPanel /\ UNCHANGED serverVars
    /\ UNCHANGED <<localStorage, probed>>

-----------------------------------------------------------------------------
(* ChatInterface.jsx *)

(* String.prototype.trim, for the space character *)
Trim(s) ==
    LET keep == {i \in 1..Len(s) : SubSeq(s, i, i) # " "} IN
    IF keep = {} THEN "" ELSE SubSeq(s, Min(keep), Max(keep))

(* ChatInterface.jsx:108 *)
FallbackText == "Sorry, there was an error processing your request."

(* JSON.stringify of a transcript (ChatInterface.jsx:90-91): a property    *)
(* whose value is undefined is left out of the object.                     *)
StringifyMessage(m) ==
    IF m.content = Undefined THEN [role |-> m.role]
    ELSE [role |-> m.role, content |-> m.content]

StringifyMessages(ms) == [i \in 1..Len(ms) |-> StringifyMessage(ms[i])]

(* A variant of ChatRequestBody that sends `messages` without userMessage *)
ChatRequestBodyPriorOnly(msgs, userMessage, model) ==
    [messages |-> StringifyMessages(msgs),
     model |-> model, temperature |-> "0.7", max_tokens |-> 1000]

(* ChatInterface.jsx:90-95  the body of the chat request *)
ChatRequestBody(msgs, userMessage, model) ==
    [messages |-> StringifyMessages(Append(msgs, userMessage)),
     model |-> model, temperature |-> "0.7", max_tokens |-> 1000]

PanelShown == ~isConfiguring /\ chatError = NoError

(* ChatInterface.jsx:163  onChange of the compose box (disabled while loading) *)
TypeInput(text) ==
    /\ PanelShown
    /\ ~loading
    /\ input' = text
    /\ UNCHANGED <<messages, loading, models, selectedModel, chatError,
                   listReq, chatReq, orphanList, orphanChat>>
    /\ UNCHANGED <<serverVars, appVars>>

(* ChatInterface.jsx:129-132  onChange of the model selector *)
SelectModel(m) ==
    /\ PanelShown
    /\ ~loading
    /\ \E i \in 1..Len(models) : models[i] = m
    /\ m # selectedModel
    /\ selectedModel' = m
    /\ UNCHANGED <<messages, input, loading, models, chatError,
                   listReq, chatReq, orphanList, orphanChat>>
    /\ UNCHANGED <<serverVars, appVars>>

(* A variant of ListingError without any of the checks *)
ListingErrorNever(o) == ""

(* ChatInterface.jsx:40-60  the error fetchModels throws on an answer, or "" *)

ListingError(o) ==
    IF FetchRejects(o) THEN "Failed to fetch"
    ELSE IF ~ResponseOk(o) THEN "HTTP error! status: 500"
    ELSE IF ~BodyIsJson(o) THEN "Failed to parse response as JSON"
    ELSE IF o = "null" \/ ~HasModelArray(o) THEN "Invalid response format from server"
    ELSE ""

(* ChatInterface.jsx:38-69  the answer to the mounted panel's listing *)
ListingDone(o) ==
    /\ listReq
    /\ listReq' = FALSE
    /\ IF ListingError(o) # ""
       THEN /\ chatError' = "Failed to load models: " \o ListingError(o)
            /\ UNCHANGED <<models, selectedModel>>
       ELSE /\ models' = AvailableModels(o)
            /\ selectedModel' = IF Len(AvailableModels(o)) > 0
                                THEN AvailableModels(o)[1]
                                ELSE selectedModel
            /\ UNCHANGED chatError
    /\ UNCHANGED <<messages, input, loading, chatReq, orphanList, orphanChat>>
    /\ UNCHANGED <<serverVars, appVars>>

(* The answer to the listing of a panel that has been unmounted: its       *)
(* setModels / setSelectedModel / setError reach no mounted component.     *)
OrphanListingDone ==
    /\ orphanList
    /\ orphanList' = FALSE
    /\ UNCHANGED <<messages, input, loading, models, selectedModel, chatError,
                   listReq, chatReq, orphanChat>>
    /\ UNCHANGED <<serverVars, appVars>>

(* ChatInterface.jsx:75-96  handleSubmit up to its await.  The compose box *)
(* and the Send button are disabled while loading (165, 167), so a submit  *)
(* comes from a render without a request in flight: the `messages` its     *)
(* closure holds (91) is the state the updater of line 80 appends to.      *)
(* Sends stop at MaxMessages entries.                                      *)
HandleSubmit ==
    /\ PanelShown
    /\ ~loading
    /\ Trim(input) # ""
    /\ selectedModel # ""
    /\ Len(messages) + 2 <= MaxMessages
    /\ LET userMessage == [role |-> "user", content |-> input] IN
       /\ messages' = Append(messages, userMessage)
       /\ chatReq' = ChatRequestBody(messages, userMessage, selectedModel)
    /\ input' = ""
    /\ loading' = TRUE
    /\ ServeApi("/api/chat")
    /\ UNCHANGED <<models, selectedModel, chatError, listReq, orphanList, orphanChat>>
    /\ UNCHANGED appVars

(* An upstream answer to POST <target>/chat is one of                      *)
(*   "hello"      200 {"response":"hello"}                                 *)
(*   "noresponse" 200 {}                                                   *)
(*   "null"       200 null                                                 *)
(*   "notjson"    200 with a body that is not JSON                         *)
(*   "http500"    500                                                      *)
(*   "neterr"     no response: fetch rejects                               *)
(* ChatInterface.jsx:98-109  the assistant entry appended for an answer    *)
ChatReply(o) ==
    IF FetchRejects(o) \/ ~ResponseOk(o) \/ ~BodyIsJson(o) \/ o = "null"
    THEN [role |-> "assistant", content |-> FallbackText]
    ELSE IF o = "noresponse"
    THEN [role |-> "assistant", content |-> Undefined]
    ELSE [role |-> "assistant", content |-> "hello"]

(* ChatInterface.jsx:98-112  the mounted panel's chat request is answered  *)
ChatDone(o) ==
    /\ chatReq # NoReq
    /\ chatReq' = NoReq
    /\ messages' = Append(messages, ChatReply(o))
    /\ loading' = FALSE
    /\ UNCHANGED <<input, models, selectedModel, chatError, listReq,
                   orphanList, orphanChat>>
    /\ UNCHANGED <<serverVars, appVars>>

(* The answer to the chat request of a panel that has been unmounted: its  *)
(* setMessages and setLoading reach no mounted component.                  *)
OrphanChatDone(o) ==
    /\ orphanChat
    /\ orphanChat' = FALSE
    /\ UNCHANGED <<messages, input, loading, models, selectedModel, chatError,
                   listReq, chatReq, orphanList>>
    /\ UNCHANGED <<serverVars, appVars>>

(* ChatInterface.jsx:115-123  the Retry button of the listing-failure panel *)
Retry ==
    /\ ~isConfiguring
    /\ chatError # NoError
    /\ PageLoad

-----------------------------------------------------------------------------
(* Inputs of the server specification *)
EnvValues == {NoEnv, "http://env.example:8000"}

RawTargets == {"provider.example:9000", "http://a.example:8000",
               "https://b.example", "localhost", "", "http:/c.example",
               "HTTP://d.example", "ftp://e.example"}

Bodies == {StringifyTarget(t) : t \in RawTargets}
          \cup {"", "not json", "{target:", "null", "5", "\"a.example\"", "[]",
                "{}", "{\"url\":\"a.example\"}", "{\"target\":5}",
                "{\"target\":null}", "{\"target\":[\"a.example\"]}"}

Methods == {"GET", "PUT"}

ApiUrls == {"/api/models", "/api/chat"}

InitServer ==
    /\ proxyTarget = defaultTarget
    /\ optionsTarget = defaultTarget
    /\ currentTarget = InitialCurrentTarget(env)
    /\ ctrlLast = NoExchange
    /\ ctrlSeen = FALSE
    /\ acked = NoAck
    /\ fwd = NoFwd

InitBrowser ==
    /\ localStorage = NoKey
    /\ apiUrl = ""
    /\ isConfiguring = TRUE
    /\ appError = ""
    /\ submits = EmptyBag
    /\ probed = {}
    /\ messages = <<>>
    /\ input = ""
    /\ loading = FALSE
    /\ models = <<>>
    /\ selectedModel = ""
    /\ chatError = NoError
    /\ listReq = FALSE
    /\ chatReq = NoReq
    /\ orphanList = FALSE
    /\ orphanChat = FALSE

-----------------------------------------------------------------------------
(* The dev server alone, with any client *)
InitProxy == env \in EnvValues /\ InitServer /\ InitBrowser

NextProxy ==
    \/ \E body \in Bodies : ControlPost(body)
    \/ \E m \in Methods : ControlOther(m)
    \/ \E url \in ApiUrls : Forward(url)

SpecProxy == InitProxy /\ [][NextProxy]_vars

-----------------------------------------------------------------------------
(* The App shell with the dev server, another client of the control path   *)
(* and restarts of the server                                              *)
Init == env = NoEnv /\ InitServer /\ InitBrowser

AppUrlInputs == {"provider.example:9000", "https://b.example/", "foo:bar"}

AppProbeOutcomes == {"ab", "missing", "http500"}

OtherClientBodies == {StringifyTarget("c.example")}

Next ==
    \/ \E u \in AppUrlInputs : TypeUrl(u)
    \/ HandleApiSubmit
    \/ \E r \in BagToSet(submits) : SubmitProbe(r)
    \/ \E r \in BagToSet(submits), o \in AppProbeOutcomes : SubmitProbeDone(r, o)
    \/ ClickConfigure
    \/ PageLoad
    \/ \E o \in AppProbeOutcomes : ListingDone(o)
    \/ OrphanListingDone
    \/ \E body \in OtherClientBodies : ControlPost(body)
    \/ Restart

Spec == Init /\ [][Next]_vars

-----------------------------------------------------------------------------
(* The chat panel inside the App shell, with the dev server *)
ChatUrlInputs == {"provider.example:9000"}

ChatProbeOutcomes == {"ab"}

ListingOutcomes == {"ab", "b", "empty", "missing", "notarray", "null",
                    "notjson", "http500", "neterr"}

ChatOutcomes == {"hello", "noresponse", "null", "notjson", "http500", "neterr"}

InputTexts == {"hi", " "}

NextChat ==
    \/ \E u \in ChatUrlInputs : TypeUrl(u)
    \/ HandleApiSubmit
    \/ \E r \in BagToSet(submits) : SubmitProbe(r)
    \/ \E r \in BagToSet(submits), o \in ChatProbeOutcomes : SubmitProbeDone(r, o)
    \/ ClickConfigure
    \/ Retry
    \/ \E o \in ListingOutcomes : ListingDone(o)
    \/ OrphanListingDone
    \/ \E t \in InputTexts : TypeInput(t)
    \/ \E m \in {"a", "b"} : SelectModel(m)
    \/ HandleSubmit
    \/ \E o \in ChatOutcomes : ChatDone(o)
    \/ \E o \in ChatOutcomes : OrphanChatDone(o)

SpecChat == Init /\ [][NextChat]_vars

-----------------------------------------------------------------------------
(* Properties of the dev server (SpecProxy) *)

HasHttpScheme(s) == StartsWith(s, "http://") \/ StartsWith(s, "https://")

(* C1: once the control endpoint has answered 200 {success:true} for a     *)
(* target T, the next request under /api, and every later one until        *)
(* another update, is forwarded to normalized T followed by the path       *)
(* without its /api prefix; none is forwarded to the previous target.      *)
C1_NextRequestUsesNewTarget ==
    (acked # NoAck /\ fwd # NoFwd) =>
        fwd.dest = (IF HasHttpScheme(acked) THEN acked ELSE "http://" \o acked)
                   \o SubSeq(fwd.url, Len("/api") + 1, Len(fwd.url))

(* C2: a POST to the control path whose body is not valid JSON, or is      *)
(* valid JSON without a string `target`, is answered 400 with an error     *)
(* description, and the stored proxy target is what it was before.         *)
MalformedBodies == {"", "not json", "{target:", "null", "5", "\"a.example\"",
                    "[]", "{}", "{\"url\":\"a.example\"}", "{\"target\":5}",
                    "{\"target\":null}", "{\"target\":[\"a.example\"]}"}

C2_MalformedBodyRejected ==
    [][\A b \in MalformedBodies :
          ServePost(b) =>
              /\ ctrlLast'.status = 400
              /\ StartsWith(ctrlLast'.resBody, "{\"error\":\"")
              /\ Len(ctrlLast'.resBody) > Len("{\"error\":\"\"}")
              /\ proxyTarget' = proxyTarget
              /\ optionsTarget' = optionsTarget]_vars

C2_Witness ==
    /\ ctrlLast.method = "POST"
    /\ ctrlLast.reqBody = "not json"
    /\ ctrlLast.status = 400
    /\ acked = "provider.example:9000"
    /\ proxyTarget = "http://provider.example:9000"

(* C3: for a target string without a scheme the stored target is "http://" *)
(* followed by the string; a string that starts with "http://" or          *)
(* "https://" is stored unchanged; normalizing the stored target again     *)
(* changes nothing, and the stored target always carries an explicit       *)
(* scheme.                                                                 *)
C3_Normalization ==
    /\ acked # NoAck =>
         /\ ~Includes(acked, "://") => proxyTarget = "http://" \o acked
         /\ HasHttpScheme(acked) => proxyTarget = acked
    /\ HasHttpScheme(proxyTarget)
    /\ HasHttpScheme(optionsTarget)
    /\ fwd # NoFwd => HasHttpScheme(fwd.dest)
    /\ updateProxyTarget(proxyTarget) = proxyTarget

C3_Witness ==
    /\ ctrlLast.status = 200
    /\ acked = "https://b.example"
    /\ proxyTarget = "https://b.example"
    /\ fwd # NoFwd

(* C8: before any request has reached the control endpoint, requests under *)
(* /api are forwarded to the environment-supplied default URL when the     *)
(* environment supplies one; afterwards the target is only replaced by     *)
(* control endpoint updates and never deleted.                             *)
C8_InitialTargetFromEnvironment ==
    /\ []((~ctrlSeen /\ env # NoEnv /\ fwd # NoFwd) =>
             fwd.dest = env \o SubSeq(fwd.url, Len("/api") + 1, Len(fwd.url)))
    /\ [][proxyTarget' # proxyTarget =>
             (ctrlLast'.status = 200 /\ proxyTarget' # "")]_vars

-----------------------------------------------------------------------------
(* Properties of the browser side (Spec, SpecChat) *)

IsPrefix(s, t) == Len(s) <= Len(t) /\ SubSeq(t, 1, Len(s)) = s

FallbackEntry ==
    [role |-> "assistant",
     content |-> "Sorry, there was an error processing your request."]

(* C4: when a submitted chat request fails (network error or non-ok        *)
(* status), exactly one assistant entry with the fixed fallback text is    *)
(* appended to the transcript, right after the user entry that was         *)
(* appended on submit, and the earlier entries are unchanged.              *)
FailedChatOutcomes == {"neterr", "http500"}

C4_FailureAppendsFallback ==
    [][\A o \in FailedChatOutcomes :
          (ChatDone(o) \/ OrphanChatDone(o)) =>
              /\ messages' = Append(messages, FallbackEntry)
              /\ Len(messages) > 0
              /\ messages[Len(messages)].role = "user"]_vars

(* C5: the `messages` field of the chat request of every send is the       *)
(* transcript right after the optimistic append: the N prior entries in    *)
(* order, then the new user message, N+1 entries, roles and contents       *)
(* unchanged; also after earlier sends that succeeded or failed.           *)
WireContent(e) == IF "content" \in DOMAIN e THEN e.content ELSE Undefined

C5_RequestCarriesTranscript ==
    [][(chatReq = NoReq /\ chatReq' # NoReq) =>
          LET sent == chatReq'.messages
              N    == Len(messages)
          IN  /\ Len(sent) = N + 1
              /\ Len(messages') = N + 1
              /\ \A i \in 1..N : messages'[i] = messages[i]
              /\ messages'[N + 1] = [role |-> "user", content |-> input]
              /\ \A i \in 1..(N + 1) :
                     /\ sent[i].role = messages'[i].role
                     /\ WireContent(sent[i]) = messages'[i].content]_vars

C5_Witness ==
    /\ chatReq # NoReq
    /\ Len(chatReq.messages) = 3
    /\ messages[2] = FallbackEntry
    /\ chatReq.messages[3] = [role |-> "user", content |-> "hi"]

(* C6: when the answer to the mounted panel's listing is ok and carries an *)
(* array available_models with at least one entry, the model list becomes  *)
(* that array and the selected model its first element; when it is not ok, *)
(* not JSON, or lacks an array available_models, the panel enters the      *)
(* listing-failure state and model list and selected model do not change.  *)
C6_ModelListing ==
    [][\A o \in ListingOutcomes :
          ListingDone(o) =>
              /\ o = "ab" => (models' = <<"a", "b">> /\ selectedModel' = "a"
                              /\ chatError' = NoError)
              /\ o = "b" => (models' = <<"b">> /\ selectedModel' = "b"
                             /\ chatError' = NoError)
              /\ o \in {"http500", "notjson", "missing", "notarray", "null"} =>
                     /\ chatError' # NoError
                     /\ models' = models
                     /\ selectedModel' = selectedModel]_vars

C6_Witness ==
    /\ ~isConfiguring
    /\ ~listReq
    /\ chatError = "Failed to load models: Invalid response format from server"
    /\ models = <<>>
    /\ selectedModel = ""

(* C7: when the probe of a configuration submit is not ok or lacks an      *)
(* array available_models, the form stays shown with an error, the         *)
(* persisted key is not written and the target of the proxy is left as the *)
(* submit set it; so the persisted key is always absent or a target whose  *)
(* probe succeeded.                                                        *)
FailedProbeOutcomes == {"missing", "http500"}

C9_TranscriptAppendOnly ==
    [][Retry \/ IsPrefix(messages, messages')]_vars

(* C10: whenever the chat panel is shown, the target of the proxy equals   *)
(* the apiUrl that the UI displays and has persisted.                      *)
C10_PanelTargetIsApiUrl ==
    ~isConfiguring => (proxyTarget = apiUrl /\ localStorage = apiUrl)

====
